---- MODULE Spec2Model ----
(***************************************************************************)
(* Model of the 2D cage manipulator of                                     *)
(* source/blender/editors/manipulator_library/manipulator_types/           *)
(* cage2d_manipulator.c: hit test (test_select), pivot table, the modal    *)
(* drag session (invoke / modal / exit), the property refresh hook and the *)
(* selection pass of the draw code.                                        *)
(*                                                                         *)
(* Numbers.  A C float is modelled as an exact rational <<n, d>> in lowest *)
(* terms with d > 0, extended with the IEEE specials <<1,0>> (+inf),       *)
(* <<-1,0>> (-inf) and <<0,0>> (NaN).  Rounding is not modelled: every     *)
(* finite operation is exact.                                              *)
(***************************************************************************)
EXTENDS Integers, Sequences, FiniteSets, TLC

(* ------------------------------------------------------------------ *)
(* float arithmetic                                                   *)
(* ------------------------------------------------------------------ *)

Abs(n) == IF n < 0 THEN -n ELSE n

Sgn(n) == IF n < 0 THEN -1 ELSE IF n > 0 THEN 1 ELSE 0

RECURSIVE GCD(_, _)
GCD(a, b) == IF b = 0 THEN a ELSE GCD(b, a % b)

\* the rational n/d (d # 0) in lowest terms, sign in the numerator
Fr(n, d) ==
    IF n = 0 THEN <<0, 1>>
    ELSE LET g == GCD(Abs(n), Abs(d))
             s == IF d < 0 THEN -1 ELSE 1
         IN  <<(s * n) \div g, (s * d) \div g>>

F0 == <<0, 1>>
F1 == <<1, 1>>
NaN == <<0, 0>>

IsFinite(a) == a[2] # 0
IsNaN(a) == a = NaN

neg_f(a) == <<-a[1], a[2]>>

add_f(a, b) ==
    IF IsFinite(a) /\ IsFinite(b)
    THEN (IF a[1] = 0 THEN b ELSE IF b[1] = 0 THEN a
          ELSE Fr(a[1] * b[2] + b[1] * a[2], a[2] * b[2]))
    ELSE IF IsNaN(a) \/ IsNaN(b) THEN NaN
    ELSE IF ~IsFinite(a) /\ ~IsFinite(b) THEN (IF a = b THEN a ELSE NaN)
    ELSE IF ~IsFinite(a) THEN a ELSE b

sub_f(a, b) == add_f(a, neg_f(b))

mul_f(a, b) ==
    IF IsFinite(a) /\ IsFinite(b)
    THEN (IF a[1] = 0 \/ b[1] = 0 THEN F0
          ELSE IF a = F1 THEN b ELSE IF b = F1 THEN a
          ELSE Fr(a[1] * b[1], a[2] * b[2]))
    ELSE IF IsNaN(a) \/ IsNaN(b) THEN NaN
    ELSE IF a[1] = 0 \/ b[1] = 0 THEN NaN
    ELSE <<Sgn(a[1]) * Sgn(b[1]), 0>>

div_f(a, b) ==
    IF IsNaN(a) \/ IsNaN(b) THEN NaN
    ELSE IF IsFinite(a) /\ IsFinite(b)
    THEN (IF b[1] = 0
          THEN (IF a[1] = 0 THEN NaN ELSE <<Sgn(a[1]), 0>>)
          ELSE Fr(a[1] * b[2], a[2] * b[1]))
    ELSE IF ~IsFinite(a) /\ ~IsFinite(b) THEN NaN
    ELSE IF ~IsFinite(a) THEN <<a[1] * (IF b[1] < 0 THEN -1 ELSE 1), 0>>
    ELSE F0

\* a < b; false when either is NaN
lt_f(a, b) ==
    IF IsNaN(a) \/ IsNaN(b) THEN FALSE
    ELSE IF IsFinite(a) /\ IsFinite(b) THEN a[1] * b[2] < b[1] * a[2]
    ELSE IF ~IsFinite(a) THEN a[1] < 0 /\ b # a
    ELSE b[1] > 0

gt_f(a, b) == lt_f(b, a)

fabsf(a) == <<Abs(a[1]), a[2]>>

ISqrt(n) == CHOOSE k \in 0..n : k * k = n

\* the square root of a sum of squares (exact: the model's basis vectors
\* have rational lengths)
sqrtf(a) ==
    IF IsFinite(a) THEN <<ISqrt(a[1]), ISqrt(a[2])>> ELSE a

(* ------------------------------------------------------------------ *)
(* BLI_math vectors and matrices: float m[4][4], m[i] the i-th basis   *)
(* vector, m[3] the translation                                        *)
(* ------------------------------------------------------------------ *)

Vec4(x, y, z, w) == <<x, y, z, w>>

unit_m4 ==
    <<Vec4(F1, F0, F0, F0), Vec4(F0, F1, F0, F0),
      Vec4(F0, F0, F1, F0), Vec4(F0, F0, F0, F1)>>

zero_v2 == <<F0, F0>>

sub_v2_v2v2(a, b) == <<sub_f(a[1], b[1]), sub_f(a[2], b[2])>>

len_v3(v) ==
    sqrtf(add_f(add_f(mul_f(v[1], v[1]), mul_f(v[2], v[2])), mul_f(v[3], v[3])))

\* the first three components of row v times f
mul_v3_fl(v, f) == <<mul_f(v[1], f), mul_f(v[2], f), mul_f(v[3], f), v[4]>>

\* one entry of the product: SUM_i B[j][i] * A[i][k]
MulEntry(A, B, j, k) ==
    add_f(add_f(add_f(mul_f(B[j][1], A[1][k]), mul_f(B[j][2], A[2][k])),
                mul_f(B[j][3], A[3][k])),
          mul_f(B[j][4], A[4][k]))

MulRow(A, B, j) ==
    <<MulEntry(A, B, j, 1), MulEntry(A, B, j, 2), MulEntry(A, B, j, 3), MulEntry(A, B, j, 4)>>

\* R = A B:  R[j][k] = SUM_i B[j][i] * A[i][k]
mul_m4_m4m4(A, B) == <<MulRow(A, B, 1), MulRow(A, B, 2), MulRow(A, B, 3), MulRow(A, B, 4)>>

\* mat := T(pivot) mat T(-pivot), for an affine mat: the basis vectors are
\* kept and the translation becomes  mat[3] + pivot - SUM_i pivot[i] mat[i]
transform_pivot_set_m4(mat, pivot) ==
    LET t(k) == sub_f(add_f(mat[4][k], pivot[k]),
                      add_f(add_f(mul_f(pivot[1], mat[1][k]), mul_f(pivot[2], mat[2][k])),
                            mul_f(pivot[3], mat[3][k])))
    IN  <<mat[1], mat[2], mat[3], <<t(1), t(2), t(3), mat[4][4]>>>>

\* inclusive containment of a point in a rectangle
BLI_rctf_isect_pt_v(r, xy) ==
    IF gt_f(r.xmin, xy[1]) THEN FALSE
    ELSE IF lt_f(r.xmax, xy[1]) THEN FALSE
    ELSE IF gt_f(r.ymin, xy[2]) THEN FALSE
    ELSE IF lt_f(r.ymax, xy[2]) THEN FALSE
    ELSE TRUE

Rctf(x0, y0, x1, y1) == [xmin |-> x0, ymin |-> y0, xmax |-> x1, ymax |-> y1]

(* ------------------------------------------------------------------ *)
(* window to local projection                                          *)
(* ------------------------------------------------------------------ *)

Det2(m) == sub_f(mul_f(m[1][1], m[2][2]), mul_f(m[1][2], m[2][1]))

\* whether the pointer can be mapped through matrix m at all
Projectable(m) == IsFinite(Det2(m)) /\ Det2(m) # F0

\* the pointer co in the local space of the widget whose offset matrix is m:
\* the solution (x, y) of  x m[0] + y m[1] + m[3] = co
manipulator_window_project_2d(m, co) ==
    LET wx == sub_f(co[1], m[4][1])
        wy == sub_f(co[2], m[4][2])
        det == Det2(m)
    IN  <<div_f(sub_f(mul_f(wx, m[2][2]), mul_f(wy, m[2][1])), det),
          div_f(sub_f(mul_f(wy, m[1][1]), mul_f(wx, m[1][2])), det)>>

(* ------------------------------------------------------------------ *)
(* parts and transform flags                                           *)
(* ------------------------------------------------------------------ *)

PART_NONE == -1
PART_TRANSLATE == 0
PART_SCALE_MIN_X == 1
PART_SCALE_MAX_X == 2
PART_SCALE_MIN_Y == 3
PART_SCALE_MAX_Y == 4
PART_SCALE_MIN_X_MIN_Y == 5
PART_SCALE_MIN_X_MAX_Y == 6
PART_SCALE_MAX_X_MIN_Y == 7
PART_SCALE_MAX_X_MAX_Y == 8
PART_ROTATE == 9

EdgeParts == {PART_SCALE_MIN_X, PART_SCALE_MAX_X, PART_SCALE_MIN_Y, PART_SCALE_MAX_Y}
CornerParts == {PART_SCALE_MIN_X_MIN_Y, PART_SCALE_MIN_X_MAX_Y,
                PART_SCALE_MAX_X_MIN_Y, PART_SCALE_MAX_X_MAX_Y}
ScaleParts == EdgeParts \cup CornerParts
Parts == ScaleParts \cup {PART_TRANSLATE, PART_ROTATE}

XFORM_FLAG_TRANSLATE == "TRANSLATE"
XFORM_FLAG_ROTATE == "ROTATE"
XFORM_FLAG_SCALE == "SCALE"
XFORM_FLAG_SCALE_UNIFORM == "SCALE_UNIFORM"
XformFlags == {XFORM_FLAG_TRANSLATE, XFORM_FLAG_ROTATE, XFORM_FLAG_SCALE,
               XFORM_FLAG_SCALE_UNIFORM}

MANIPULATOR_RESIZER_WIDTH == 20

\* operator statuses
OPERATOR_RUNNING_MODAL == "RUNNING_MODAL"
OPERATOR_FINISHED == "FINISHED"

(* ------------------------------------------------------------------ *)
(* manipulator_rect_pivot_from_scale_part                              *)
(* ------------------------------------------------------------------ *)

Half == <<1, 2>>
NHalf == <<-1, 2>>

\* r_pt, r_constrain_axis and whether BLI_assert(0) was reached; for a part
\* that is no scale part r_pt is left as the caller passed it in (pt_in)
pivot_mutant(part, pt_in) ==
    CASE part = PART_SCALE_MIN_X -> [pt |-> <<NHalf, F0>>, constrain_axis |-> <<FALSE, TRUE>>, assert |-> FALSE]
      [] part = PART_SCALE_MAX_X -> [pt |-> <<Half, F0>>, constrain_axis |-> <<FALSE, TRUE>>, assert |-> FALSE]
      [] part = PART_SCALE_MIN_Y -> [pt |-> <<F0, NHalf>>, constrain_axis |-> <<TRUE, FALSE>>, assert |-> FALSE]
      [] part = PART_SCALE_MAX_Y -> [pt |-> <<F0, Half>>, constrain_axis |-> <<TRUE, FALSE>>, assert |-> FALSE]
      [] part = PART_SCALE_MIN_X_MIN_Y -> [pt |-> <<NHalf, NHalf>>, constrain_axis |-> <<FALSE, FALSE>>, assert |-> FALSE]
      [] part = PART_SCALE_MIN_X_MAX_Y -> [pt |-> <<NHalf, Half>>, constrain_axis |-> <<FALSE, FALSE>>, assert |-> FALSE]
      [] part = PART_SCALE_MAX_X_MIN_Y -> [pt |-> <<Half, NHalf>>, constrain_axis |-> <<FALSE, FALSE>>, assert |-> FALSE]
      [] part = PART_SCALE_MAX_X_MAX_Y -> [pt |-> <<Half, Half>>, constrain_axis |-> <<FALSE, FALSE>>, assert |-> FALSE]
      [] OTHER -> [pt |-> pt_in, constrain_axis |-> <<TRUE, TRUE>>, assert |-> TRUE]

manipulator_rect_pivot_from_scale_part(part, pt_in) ==
    CASE part = PART_SCALE_MIN_X -> [pt |-> <<Half, F0>>, constrain_axis |-> <<FALSE, TRUE>>, assert |-> FALSE]
      [] part = PART_SCALE_MAX_X -> [pt |-> <<NHalf, F0>>, constrain_axis |-> <<FALSE, TRUE>>, assert |-> FALSE]
      [] part = PART_SCALE_MIN_Y -> [pt |-> <<F0, Half>>, constrain_axis |-> <<TRUE, FALSE>>, assert |-> FALSE]
      [] part = PART_SCALE_MAX_Y -> [pt |-> <<F0, NHalf>>, constrain_axis |-> <<TRUE, FALSE>>, assert |-> FALSE]
      [] part = PART_SCALE_MIN_X_MIN_Y -> [pt |-> <<Half, Half>>, constrain_axis |-> <<FALSE, FALSE>>, assert |-> FALSE]
      [] part = PART_SCALE_MIN_X_MAX_Y -> [pt |-> <<Half, NHalf>>, constrain_axis |-> <<FALSE, FALSE>>, assert |-> FALSE]
      [] part = PART_SCALE_MAX_X_MIN_Y -> [pt |-> <<NHalf, Half>>, constrain_axis |-> <<FALSE, FALSE>>, assert |-> FALSE]
      [] part = PART_SCALE_MAX_X_MAX_Y -> [pt |-> <<NHalf, NHalf>>, constrain_axis |-> <<FALSE, FALSE>>, assert |-> FALSE]
      [] OTHER -> [pt |-> pt_in, constrain_axis |-> <<TRUE, TRUE>>, assert |-> TRUE]

(* ------------------------------------------------------------------ *)
(* manipulator_rect_transform_test_select                              *)
(* ------------------------------------------------------------------ *)

\* size[2], the half dimensions
HalfSize(dims) == <<div_f(dims[1], <<2, 1>>), div_f(dims[2], <<2, 1>>)>>

\* margin[2]: the aspect is taken from the smaller side
Margin(dims) ==
    LET w == dims[1]
        h == dims[2]
        aspx == IF gt_f(w, h) THEN div_f(h, w) ELSE F1
        aspy == IF gt_f(w, h) THEN F1 ELSE div_f(w, h)
        rw == <<MANIPULATOR_RESIZER_WIDTH, 1>>
    IN  <<div_f(mul_f(aspx, w), rw), div_f(mul_f(aspy, h), rw)>>

\* the translate rectangle
TranslateRect(dims) ==
    LET size == HalfSize(dims)
        margin == Margin(dims)
    IN  Rctf(add_f(neg_f(size[1]), margin[1]), add_f(neg_f(size[2]), margin[2]),
             sub_f(size[1], margin[1]), sub_f(size[2], margin[2]))

\* the four margin strips r_xmin, r_xmax, r_ymin, r_ymax
ScaleStrips(dims) ==
    LET size == HalfSize(dims)
        margin == Margin(dims)
    IN  [xmin |-> Rctf(neg_f(size[1]), neg_f(size[2]),
                       add_f(neg_f(size[1]), margin[1]), size[2]),
         xmax |-> Rctf(sub_f(size[1], margin[1]), neg_f(size[2]), size[1], size[2]),
         ymin |-> Rctf(neg_f(size[1]), neg_f(size[2]),
                       size[1], add_f(neg_f(size[2]), margin[2])),
         ymax |-> Rctf(neg_f(size[1]), sub_f(size[2], margin[2]), size[1], size[2])]

\* the rotate hot spot, a square above the top edge
RotateRect(dims) ==
    LET size == HalfSize(dims)
        margin == Margin(dims)
        two == <<2, 1>>
        pt == <<F0, add_f(size[2], margin[2])>>
    IN  Rctf(sub_f(pt[1], div_f(margin[1], two)), sub_f(pt[2], div_f(margin[2], two)),
             add_f(pt[1], div_f(margin[1], two)), add_f(pt[2], div_f(margin[2], two)))

\* the translate block: the part it returns, or PART_NONE to fall through
select_translate(flag, dims, p) ==
    IF XFORM_FLAG_TRANSLATE \in flag /\ BLI_rctf_isect_pt_v(TranslateRect(dims), p)
    THEN PART_TRANSLATE ELSE PART_NONE

select_scale_part_mutant(in_xmin, in_xmax, in_ymin, in_ymax) ==
    IF in_xmin THEN PART_SCALE_MIN_X
    ELSE IF in_xmax THEN PART_SCALE_MAX_X
    ELSE IF in_ymin THEN PART_SCALE_MIN_Y
    ELSE IF in_ymax THEN PART_SCALE_MAX_Y
    ELSE PART_NONE

\* the nested strip tests of the scale block
select_scale_part(in_xmin, in_xmax, in_ymin, in_ymax) ==
    IF in_xmin
    THEN (IF in_ymin THEN PART_SCALE_MIN_X_MIN_Y
          ELSE IF in_ymax THEN PART_SCALE_MIN_X_MAX_Y
          ELSE PART_SCALE_MIN_X)
    ELSE IF in_xmax
    THEN (IF in_ymin THEN PART_SCALE_MAX_X_MIN_Y
          ELSE IF in_ymax THEN PART_SCALE_MAX_X_MAX_Y
          ELSE PART_SCALE_MAX_X)
    ELSE IF in_ymin THEN PART_SCALE_MIN_Y
    ELSE IF in_ymax THEN PART_SCALE_MAX_Y
    ELSE PART_NONE

\* the scale block
select_scale(flag, dims, p) ==
    IF flag \cap {XFORM_FLAG_SCALE, XFORM_FLAG_SCALE_UNIFORM} # {}
    THEN LET r == ScaleStrips(dims)
         IN  select_scale_part(BLI_rctf_isect_pt_v(r.xmin, p), BLI_rctf_isect_pt_v(r.xmax, p),
                               BLI_rctf_isect_pt_v(r.ymin, p), BLI_rctf_isect_pt_v(r.ymax, p))
    ELSE PART_NONE

\* the rotate block
select_rotate(flag, dims, p) ==
    IF XFORM_FLAG_ROTATE \in flag /\ BLI_rctf_isect_pt_v(RotateRect(dims), p)
    THEN PART_ROTATE ELSE PART_NONE

select_order_mutant(t, s, r) ==
    IF s # PART_NONE THEN s ELSE IF t # PART_NONE THEN t ELSE r

\* the order of the three blocks: the first that returns a part wins
select_order(t, s, r) ==
    IF t # PART_NONE THEN t ELSE IF s # PART_NONE THEN s ELSE r

\* test_select on a pointer that projected to local point p
test_select_local(flag, dims, p) ==
    select_order(select_translate(flag, dims, p), select_scale(flag, dims, p),
                 select_rotate(flag, dims, p))

(* ------------------------------------------------------------------ *)
(* bounds and input sets                                               *)
(* ------------------------------------------------------------------ *)

\* drag sessions begun in one run
MaxSessions == 1

Q(n, d) == Fr(n, d)
Pt(xn, xd, yn, yd) == <<Fr(xn, xd), Fr(yn, yd)>>


Square == <<Q(2, 1), Q(2, 1)>>
Wide == <<Q(4, 1), Q(2, 1)>>

\* the configurations tried: dimensions, transform flags, whether the
\* "matrix" property is bound
Configs ==
    {<<Square, {}, TRUE>>,
     <<Square, {XFORM_FLAG_TRANSLATE}, TRUE>>,
     <<Square, {XFORM_FLAG_ROTATE}, TRUE>>,
     <<Square, {XFORM_FLAG_SCALE}, TRUE>>,
     <<Square, {XFORM_FLAG_SCALE_UNIFORM}, TRUE>>,
     <<Square, {XFORM_FLAG_TRANSLATE, XFORM_FLAG_ROTATE}, TRUE>>,
     <<Square, {XFORM_FLAG_TRANSLATE, XFORM_FLAG_SCALE}, TRUE>>,
     <<Square, XformFlags, TRUE>>,
     <<Wide, {XFORM_FLAG_TRANSLATE, XFORM_FLAG_SCALE, XFORM_FLAG_SCALE_UNIFORM}, TRUE>>,
     <<Square, {XFORM_FLAG_TRANSLATE, XFORM_FLAG_SCALE, XFORM_FLAG_ROTATE}, FALSE>>}

\* a 2D offset matrix with basis vectors (a, b) and (c, d), translation (tx, ty)
Mat2(a, b, c, d, tx, ty) ==
    <<Vec4(Q(a, 1), Q(b, 1), F0, F0), Vec4(Q(c, 1), Q(d, 1), F0, F0),
      Vec4(F0, F0, F1, F0), Vec4(Q(tx, 1), Q(ty, 1), F0, F1)>>

\* the values the bound property takes at construction and by external writes
MatrixSet == {unit_m4, Mat2(0, 2, -1, 0, 1, 0)}

\* pointer positions of hover events
HitPoints ==
    {Pt(0, 1, 0, 1), Pt(9, 10, 0, 1), Pt(9, 10, 9, 10), Pt(1, 1, 1, 1),
     Pt(-1, 1, 0, 1), Pt(0, 1, 11, 10), Pt(19, 10, 9, 10), Pt(3, 1, 3, 1)}

\* pointer positions of press and move events
DragPoints == {Pt(1, 1, 1, 1), Pt(6, 1, -2, 1)}

\* base selection ids handed to draw_select (the host shifts an index left by 8)
BaseIds == {0, 256}

\* the selection id loaded when draw_select is entered: none (-1), or the id
\* of a part of the widget drawn before this one
EntryIds == {-1, 515}

(* ------------------------------------------------------------------ *)
(* state                                                               *)
(* ------------------------------------------------------------------ *)

VARIABLES
    dims,              \* RNA "dimensions"
    transform_flag,    \* RNA "transform"
    prop_bound,        \* the "matrix" target property is bound (mpr_prop->type != NULL)
    prop_value,        \* the value of the bound "matrix" property
    matrix_offset,     \* mpr->matrix_offset
    highlight_part,    \* mpr->highlight_part
    interaction_data,  \* mpr->interaction_data
    state,             \* "Idle" or "Dragging": whether the host runs this widget modal
    sessions,          \* invoke calls so far
    select_buf,        \* the regions the picking pass just drew, each with the id loaded
    last,              \* history: the last operation, its inputs and its locals
    first_update,      \* history: the first successful modal update of the session
                       \* that runs or has just ended
    begin_matrix       \* history: mpr->matrix_offset when the session that runs or
                       \* has just ended began

vars == <<dims, transform_flag, prop_bound, prop_value, matrix_offset, highlight_part,
          interaction_data, state, sessions, select_buf, last, first_update,
          begin_matrix>>

config == <<dims, transform_flag, prop_bound>>

NullData == [valid |-> FALSE, orig_mouse |-> zero_v2, orig_matrix_offset |-> unit_m4]

NoScale == <<F1, F1>>

Op(name, ok, co) ==
    [op |-> name, ok |-> ok, co |-> co, select_id |-> 0, id_in |-> 0,
     ret |-> "none", branch |-> "none", pivot |-> zero_v2,
     constrain_axis |-> <<FALSE, FALSE>>, scale_axis |-> NoScale, scale |-> NoScale]

NoUpdate == [set |-> FALSE, later |-> FALSE, co |-> zero_v2, matrix |-> unit_m4]

Init ==
    /\ \E c \in Configs :
           /\ dims = c[1]
           /\ transform_flag = c[2]
           /\ prop_bound = c[3]
    /\ matrix_offset = unit_m4
    /\ prop_value = unit_m4
    /\ highlight_part = PART_NONE
    /\ interaction_data = NullData
    /\ state = "Idle"
    /\ sessions = 0
    /\ select_buf = <<>>
    /\ last = Op("init", TRUE, zero_v2)
    /\ first_update = NoUpdate
    /\ begin_matrix = unit_m4

(* ------------------------------------------------------------------ *)
(* test_select                                                         *)
(* ------------------------------------------------------------------ *)

\* the return value: -1 when the projection fails
manipulator_rect_transform_test_select(flag, d, m, co, ok) ==
    IF ~ok THEN PART_NONE
    ELSE test_select_local(flag, d, manipulator_window_project_2d(m, co))

\* a hover event: the host highlights the part test_select returns
TestSelectAt(co, ok) ==
    /\ state = "Idle"
    /\ ok => Projectable(matrix_offset)
    /\ highlight_part' =
           manipulator_rect_transform_test_select(transform_flag, dims,
                                                  matrix_offset, co, ok)
    /\ last' = Op("test_select", ok, co)
    /\ select_buf' = <<>>
    /\ begin_matrix' = unit_m4
    /\ first_update' = NoUpdate
    /\ UNCHANGED <<config, prop_value, matrix_offset, interaction_data, state,
                   sessions>>

\* the pointer of a failed projection is not recorded in the history
TestSelect ==
    \/ \E co \in HitPoints : TestSelectAt(co, TRUE)
    \/ TestSelectAt(zero_v2, FALSE)

(* ------------------------------------------------------------------ *)
(* invoke                                                              *)
(* ------------------------------------------------------------------ *)

invoke_data(m, co, ok) ==
    [valid |-> TRUE,
     orig_matrix_offset |-> m,
     orig_mouse |-> IF ok THEN manipulator_window_project_2d(m, co) ELSE zero_v2]

\* the status invoke returns
invoke_return(ok) == OPERATOR_RUNNING_MODAL

\* the host's modal state after a handler returned: the widget stays modal
\* while the handler reports running
wm_modal_state(ret) == IF ret = OPERATOR_RUNNING_MODAL THEN "Dragging" ELSE "Idle"

\* a press on the highlighted part
InvokeAt(co, ok) ==
    /\ state = "Idle"
    /\ highlight_part \in Parts
    /\ sessions < MaxSessions
    /\ ok => Projectable(matrix_offset)
    /\ interaction_data' = invoke_data(matrix_offset, co, ok)
    /\ state' = wm_modal_state(invoke_return(ok))
    /\ sessions' = sessions + 1
    /\ last' = [Op("invoke", ok, co) EXCEPT !.ret = invoke_return(ok)]
    /\ first_update' = NoUpdate
    /\ begin_matrix' = matrix_offset
    /\ select_buf' = <<>>
    /\ UNCHANGED <<config, prop_value, matrix_offset, highlight_part>>

Invoke ==
    \/ \E co \in DragPoints : InvokeAt(co, TRUE)
    \/ InvokeAt(zero_v2, FALSE)

(* ------------------------------------------------------------------ *)
(* modal                                                               *)
(* ------------------------------------------------------------------ *)

modal_project_matrix_mutant(cur, orig) == cur

\* the matrix in mpr->matrix_offset while the pointer is projected: the
\* pre-drag matrix is swapped in and the current one put back afterwards
modal_project_matrix(cur, orig) == orig

modal_restore_matrix_mutant(matrix_back, orig) == orig

\* mpr->matrix_offset once the pointer has been projected: matrix_back is
\* copied back, whether the projection succeeded or not
modal_restore_matrix(matrix_back, orig) == matrix_back

modal_return_mutant(ok) ==
    IF ok THEN OPERATOR_RUNNING_MODAL ELSE OPERATOR_FINISHED

\* the status modal returns, after a failed projection and at its end
modal_return(ok) == OPERATOR_RUNNING_MODAL

\* value_get_array into mpr->matrix_offset, when the property is bound
modal_value_get(bound, prop, cur) == IF bound THEN prop ELSE cur

modal_translate_mutant(orig, cur, value_xy) ==
    [cur EXCEPT ![4][1] = add_f(cur[4][1], value_xy[1]),
                ![4][2] = add_f(cur[4][2], value_xy[2])]

\* the translate branch; cur is mpr->matrix_offset on entry of the branch
modal_translate(orig, cur, value_xy) ==
    [orig EXCEPT ![4][1] = add_f(orig[4][1], value_xy[1]),
                 ![4][2] = add_f(orig[4][2], value_xy[2])]

modal_scale_pivot_mutant(flag, part) ==
    LET r == manipulator_rect_pivot_from_scale_part(part, <<NaN, NaN>>)
    IN  [pt |-> r.pt, constrain_axis |-> r.constrain_axis]

\* pivot and constrain_axis of the scale branch.  The part is a scale part
\* whenever this is called, so the uninitialised pivot[2] handed to the
\* table (here NaN) is never read.
modal_scale_pivot(flag, part) ==
    IF XFORM_FLAG_TRANSLATE \in flag
    THEN LET r == manipulator_rect_pivot_from_scale_part(part, <<NaN, NaN>>)
         IN  [pt |-> r.pt, constrain_axis |-> r.constrain_axis]
    ELSE [pt |-> zero_v2, constrain_axis |-> <<FALSE, FALSE>>]

scale_axis_mutant(constrain, d_orig, d_curr, len) ==
    IF constrain THEN F1
    ELSE add_f(F1, div_f(sub_f(d_curr, d_orig), len))

\* scale[i] of one axis, from delta_orig[i] and delta_curr[i] already
\* divided by dims[i]
scale_axis(constrain, d_orig, d_curr, len) ==
    IF constrain THEN F1
    ELSE LET flip == lt_f(d_orig, F0)
             o == IF flip THEN mul_f(d_orig, <<-1, 1>>) ELSE d_orig
             c == IF flip THEN mul_f(d_curr, <<-1, 1>>) ELSE d_curr
         IN  add_f(F1, div_f(sub_f(c, o), len))

\* the cursor deltas and the per-axis loop
modal_scale_factors(orig_mouse, point_local, pivot, constrain_axis, d, orig) ==
    LET delta_orig == sub_v2_v2v2(orig_mouse, pivot)
        delta_curr == sub_v2_v2v2(point_local, pivot)
        axis(i) == scale_axis(constrain_axis[i], div_f(delta_orig[i], d[i]),
                              div_f(delta_curr[i], d[i]), len_v3(orig[i]))
    IN  <<axis(1), axis(2)>>

modal_scale_uniform_mutant(flag, scale) ==
    IF XFORM_FLAG_SCALE_UNIFORM \in flag
    THEN (IF lt_f(fabsf(sub_f(scale[1], F1)), fabsf(sub_f(scale[2], F1)))
          THEN <<scale[1], scale[1]>>
          ELSE <<scale[2], scale[2]>>)
    ELSE scale

\* the SCALE_UNIFORM resolution
modal_scale_uniform(flag, scale) ==
    IF XFORM_FLAG_SCALE_UNIFORM \in flag
    THEN (IF gt_f(fabsf(sub_f(scale[1], F1)), fabsf(sub_f(scale[2], F1)))
          THEN <<scale[1], scale[1]>>
          ELSE <<scale[2], scale[2]>>)
    ELSE scale

\* matrix_scale about the pivot, composed with the pre-drag matrix
modal_scale_matrix(orig, scale, pivot) ==
    LET matrix_scale == [unit_m4 EXCEPT ![1] = mul_v3_fl(unit_m4[1], scale[1]),
                                        ![2] = mul_v3_fl(unit_m4[2], scale[2])]
    IN  mul_m4_m4m4(orig, transform_pivot_set_m4(matrix_scale, <<pivot[1], pivot[2], F0>>))

modal_value_set_mutant(bound, prop, m) == prop

\* value_set_array of the new matrix, when the property is bound
modal_value_set(bound, prop, m) == IF bound THEN m ELSE prop

\* the locals of one successful update and the matrix it computes
modal_compute(data, flag, d, part, cur, point_local) ==
    LET orig == data.orig_matrix_offset
        value_xy == sub_v2_v2v2(point_local, data.orig_mouse)
    IN  IF part = PART_TRANSLATE
        THEN [branch |-> "translate", pivot |-> zero_v2,
              constrain_axis |-> <<FALSE, FALSE>>, scale_axis |-> NoScale,
              scale |-> NoScale, matrix |-> modal_translate(orig, cur, value_xy)]
        ELSE IF part = PART_ROTATE
        THEN [branch |-> "rotate", pivot |-> zero_v2,
              constrain_axis |-> <<FALSE, FALSE>>, scale_axis |-> NoScale,
              scale |-> NoScale, matrix |-> cur]
        ELSE LET pv == modal_scale_pivot(flag, part)
                 sa == modal_scale_factors(data.orig_mouse, point_local, pv.pt,
                                           pv.constrain_axis, d, orig)
                 sc == modal_scale_uniform(flag, sa)
             IN  [branch |-> "scale", pivot |-> pv.pt,
                  constrain_axis |-> pv.constrain_axis, scale_axis |-> sa,
                  scale |-> sc, matrix |-> modal_scale_matrix(orig, sc, pv.pt)]

\* a pointer move during the drag
ModalAt(co, ok) ==
    LET data == interaction_data
        pm == modal_project_matrix(matrix_offset, data.orig_matrix_offset)
        restored == modal_restore_matrix(matrix_offset, data.orig_matrix_offset)
    IN  /\ state = "Dragging"
        /\ ok => Projectable(pm)
        /\ IF ~ok
           THEN /\ last' = [Op("modal", FALSE, co) EXCEPT !.ret = modal_return(ok)]
                /\ matrix_offset' = restored
                /\ UNCHANGED <<prop_value, first_update>>
           ELSE LET point_local == manipulator_window_project_2d(pm, co)
                    cur == modal_value_get(prop_bound, prop_value, restored)
                    r == modal_compute(data, transform_flag, dims, highlight_part,
                                       cur, point_local)
                IN  /\ matrix_offset' = r.matrix
                    /\ prop_value' = modal_value_set(prop_bound, prop_value, r.matrix)
                    /\ last' = [Op("modal", TRUE, co) EXCEPT
                                   !.ret = modal_return(ok),
                                   !.branch = r.branch, !.pivot = r.pivot,
                                   !.constrain_axis = r.constrain_axis,
                                   !.scale_axis = r.scale_axis, !.scale = r.scale]
                    /\ first_update' =
                           IF first_update.set
                           THEN [first_update EXCEPT !.later = TRUE]
                           ELSE [set |-> TRUE, later |-> FALSE, co |-> co,
                                 matrix |-> r.matrix]
        /\ state' = wm_modal_state(modal_return(ok))
        /\ UNCHANGED <<config, highlight_part, interaction_data, sessions,
                       select_buf, begin_matrix>>

Modal ==
    \/ \E co \in DragPoints : ModalAt(co, TRUE)
    \/ ModalAt(zero_v2, FALSE)

(* ------------------------------------------------------------------ *)
(* property_update and exit                                            *)
(* ------------------------------------------------------------------ *)

\* mpr->matrix_offset after the refresh hook read the property
property_update_matrix(prop) == prop

\* the bound property is written from outside and the host calls the
\* property_update hook
PropertyUpdate ==
    \E m \in MatrixSet :
        /\ prop_bound
        /\ m # prop_value
        /\ prop_value' = m
        /\ matrix_offset' = property_update_matrix(m)
        /\ last' = Op("property_update", TRUE, zero_v2)
        /\ select_buf' = <<>>
        /\ begin_matrix' = IF state = "Dragging" THEN begin_matrix ELSE unit_m4
        /\ first_update' = IF state = "Dragging" THEN first_update ELSE NoUpdate
        /\ UNCHANGED <<config, highlight_part, interaction_data, state, sessions>>

exit_matrix_mutant(cancel, cur, data) == cur

\* mpr->matrix_offset after exit
exit_matrix(cancel, cur, data) == IF cancel THEN data.orig_matrix_offset ELSE cur

\* the bound property after exit
exit_property(cancel, bound, prop, data) ==
    IF cancel /\ bound THEN data.orig_matrix_offset ELSE prop

\* mpr->interaction_data after exit: the handler leaves the pointer alone
exit_data(cancel, data) == data

wm_modal_end_data_mutant(data) == data

\* mpr->interaction_data once the host has ended the modal state: the host
\* discards the session object
wm_modal_end_data(data) == NullData

\* release (cancel = FALSE) or cancel (cancel = TRUE) of the drag: the host
\* calls exit and ends the modal state
Exit ==
    \E cancel \in BOOLEAN :
        /\ state = "Dragging"
        /\ matrix_offset' = exit_matrix(cancel, matrix_offset, interaction_data)
        /\ prop_value' = exit_property(cancel, prop_bound, prop_value, interaction_data)
        /\ state' = "Idle"
        /\ interaction_data' =
               wm_modal_end_data(exit_data(cancel, interaction_data))
        /\ last' = Op(IF cancel THEN "exit_cancel" ELSE "exit_commit", TRUE, zero_v2)
        /\ UNCHANGED <<config, highlight_part, sessions, select_buf, first_update,
                       begin_matrix>>

(* ------------------------------------------------------------------ *)
(* draw_select                                                         *)
(* ------------------------------------------------------------------ *)

RECURSIVE BitOr(_, _)
BitOr(a, b) ==
    IF a = 0 THEN b ELSE IF b = 0 THEN a
    ELSE (IF a % 2 = 1 \/ b % 2 = 1 THEN 1 ELSE 0) + 2 * BitOr(a \div 2, b \div 2)

scale_parts ==
    <<PART_SCALE_MIN_X, PART_SCALE_MAX_X, PART_SCALE_MIN_Y, PART_SCALE_MAX_Y,
      PART_SCALE_MIN_X_MIN_Y, PART_SCALE_MIN_X_MAX_Y, PART_SCALE_MAX_X_MIN_Y,
      PART_SCALE_MAX_X_MAX_Y>>

Draw(id, part) == [id |-> id, part |-> part]

\* draw_intern with select set: the regions drawn, in order, each with the
\* selection id loaded at the time, from the id loaded on entry.  The corner
\* ticks (no part) come first, under the id loaded on entry.
draw_select_regions(flag, select_id, id_in) ==
    LET c == <<Draw(id_in, PART_NONE)>>
        s == IF XFORM_FLAG_SCALE \in flag
             THEN LET d(i) == Draw(BitOr(select_id, scale_parts[i]), scale_parts[i])
                  IN  <<d(1), d(2), d(3), d(4), d(5), d(6), d(7), d(8)>>
             ELSE <<>>
        id_s == IF s = <<>> THEN id_in ELSE s[Len(s)].id
        t == IF XFORM_FLAG_TRANSLATE \in flag
             THEN <<Draw(BitOr(select_id, PART_TRANSLATE), PART_TRANSLATE)>>
             ELSE <<>>
        id_t == IF t = <<>> THEN id_s ELSE t[1].id
        r == IF XFORM_FLAG_ROTATE \in flag THEN <<Draw(id_t, PART_ROTATE)>> ELSE <<>>
    IN  c \o s \o t \o r

\* a picking pass of the host over this widget
DrawSelect ==
    \E select_id \in BaseIds, id_in \in EntryIds :
        /\ state = "Idle"
        /\ select_buf' = draw_select_regions(transform_flag, select_id, id_in)
        /\ last' = [Op("draw_select", TRUE, zero_v2) EXCEPT
                       !.select_id = select_id, !.id_in = id_in]
        /\ begin_matrix' = unit_m4
        /\ first_update' = NoUpdate
        /\ UNCHANGED <<config, prop_value, matrix_offset, highlight_part,
                       interaction_data, state, sessions>>

Next == TestSelect \/ Invoke \/ Modal \/ Exit \/ PropertyUpdate \/ DrawSelect

Spec == Init /\ [][Next]_vars

TypeOK ==
    /\ state \in {"Idle", "Dragging"}
    /\ highlight_part \in Parts \cup {PART_NONE}
    /\ sessions \in 0..MaxSessions
    /\ state = "Dragging" => interaction_data.valid

(* ------------------------------------------------------------------ *)
(* properties                                                          *)
(* ------------------------------------------------------------------ *)

\* a successful modal update was the last operation
Updated == last.op = "modal" /\ last.ok

\* the local point of the pointer of the last update, projected through the
\* matrix the session began with
UpdatePoint == manipulator_window_project_2d(begin_matrix, last.co)

\* C1: a drag ended by cancel leaves the widget's offset matrix, and the bound
\* "matrix" property, equal in all 16 components to the offset matrix at the
\* moment the drag began, whatever updates (successful or not) came between.
C1_CancelRoundTrip ==
    last.op = "exit_cancel" =>
        /\ \A i \in 1..4, k \in 1..4 : matrix_offset[i][k] = begin_matrix[i][k]
        /\ prop_bound => \A i \in 1..4, k \in 1..4 : prop_value[i][k] = begin_matrix[i][k]

\* a cancel that undid a drag which had moved the matrix of a bound property
C1_Witness ==
    /\ last.op = "exit_cancel"
    /\ prop_bound
    /\ first_update.set
    /\ first_update.matrix # begin_matrix

\* C2: after a successful update on TranslateArea the offset matrix equals the
\* pre-drag snapshot in every component except the x and y translation, which
\* are the snapshot's plus delta = pointerLocal - originPointerLocal.
C2_TranslateUpdate ==
    (Updated /\ highlight_part = PART_TRANSLATE) =>
        LET delta == sub_v2_v2v2(UpdatePoint, interaction_data.orig_mouse)
        IN  \A i \in 1..4, k \in 1..4 :
                matrix_offset[i][k] =
                    IF i = 4 /\ k \in {1, 2}
                    THEN add_f(begin_matrix[i][k], delta[k])
                    ELSE begin_matrix[i][k]

\* a translate drag by (+5, -3) in local units
C2_Witness ==
    /\ Updated
    /\ highlight_part = PART_TRANSLATE
    /\ sub_v2_v2v2(UpdatePoint, interaction_data.orig_mouse) = <<Q(5, 1), Q(-3, 1)>>
    /\ matrix_offset[4][1] = add_f(begin_matrix[4][1], Q(5, 1))
    /\ matrix_offset[4][2] = add_f(begin_matrix[4][2], Q(-3, 1))

\* the last update repeats the pointer position of the first successful
\* update of the session, after at least one update in between or before
SamePointerAgain ==
    /\ Updated
    /\ first_update.set
    /\ first_update.later
    /\ last.co = first_update.co

\* C3 as stated: whatever the active part, an update at the pointer position
\* of an earlier update of the session yields the same offset matrix.
C3_NeverCompound_Stated ==
    SamePointerAgain => matrix_offset = first_update.matrix

\* C3: on TranslateArea and on the scale parts an update at the pointer
\* position of an earlier update of the session yields the same offset matrix,
\* whatever updates or outside writes of the property came between; on the
\* Rotate part an update computes nothing and leaves the offset matrix at
\* the current value of the bound property (its own value when unbound).
C3_NeverCompound ==
    /\ (SamePointerAgain /\ highlight_part # PART_ROTATE) =>
            matrix_offset = first_update.matrix
    /\ (Updated /\ highlight_part = PART_ROTATE) =>
            /\ last.branch = "rotate"
            /\ prop_bound => matrix_offset = prop_value
            /\ ~prop_bound => matrix_offset = begin_matrix

\* a scale drag that moved the matrix, went elsewhere and came back
C3_Witness ==
    /\ SamePointerAgain
    /\ highlight_part \in ScaleParts
    /\ matrix_offset = first_update.matrix
    /\ matrix_offset # begin_matrix

\* a hover event whose pointer projected was the last operation
Hovered == last.op = "test_select" /\ last.ok

\* the local point of that pointer
HoverPoint == manipulator_window_project_2d(matrix_offset, last.co)

InTranslateRect == BLI_rctf_isect_pt_v(TranslateRect(dims), HoverPoint)

InStrip(name) == BLI_rctf_isect_pt_v(ScaleStrips(dims)[name], HoverPoint)

ScaleEnabled == transform_flag \cap {XFORM_FLAG_SCALE, XFORM_FLAG_SCALE_UNIFORM} # {}

\* C4: with Translate and Scale both enabled, a point inside the translate
\* rectangle and inside a scale margin strip resolves to TranslateArea.
C4_TranslatePriority ==
    (/\ Hovered
     /\ {XFORM_FLAG_TRANSLATE, XFORM_FLAG_SCALE} \subseteq transform_flag
     /\ InTranslateRect
     /\ \E name \in {"xmin", "xmax", "ymin", "ymax"} : InStrip(name))
    => highlight_part = PART_TRANSLATE

\* a hover on the shared boundary of the translate rectangle and the xmax strip
C4_Witness ==
    /\ Hovered
    /\ {XFORM_FLAG_TRANSLATE, XFORM_FLAG_SCALE} \subseteq transform_flag
    /\ InTranslateRect
    /\ InStrip("xmax")
    /\ highlight_part = PART_TRANSLATE

\* the corner part of an x strip and a y strip
CornerOf(xs, ys) ==
    IF xs = "xmin"
    THEN (IF ys = "ymin" THEN PART_SCALE_MIN_X_MIN_Y ELSE PART_SCALE_MIN_X_MAX_Y)
    ELSE (IF ys = "ymin" THEN PART_SCALE_MAX_X_MIN_Y ELSE PART_SCALE_MAX_X_MAX_Y)

\* C5 as stated: with Scale or ScaleUniform enabled, a point inside an x strip
\* and a y strip always resolves to the corner part of the two strips.
C5_CornerOverEdge_Stated ==
    \A xs \in {"xmin", "xmax"}, ys \in {"ymin", "ymax"} :
        (Hovered /\ ScaleEnabled /\ InStrip(xs) /\ InStrip(ys))
        => highlight_part = CornerOf(xs, ys)

\* C5: with Scale or ScaleUniform enabled, a point inside an x strip and a
\* y strip resolves to the corner part of the two strips and never to an edge
\* part, except that with Translate enabled a point that also lies in the
\* translate rectangle (its inner corner) resolves to TranslateArea.
C5_CornerOverEdge ==
    \A xs \in {"xmin", "xmax"}, ys \in {"ymin", "ymax"} :
        (Hovered /\ ScaleEnabled /\ InStrip(xs) /\ InStrip(ys))
        => /\ highlight_part \notin EdgeParts
           /\ highlight_part =
                  IF XFORM_FLAG_TRANSLATE \in transform_flag /\ InTranslateRect
                  THEN PART_TRANSLATE
                  ELSE CornerOf(xs, ys)

\* a hover on the outer corner of the cage, with Translate enabled as well
C5_Witness ==
    /\ Hovered
    /\ ScaleEnabled
    /\ XFORM_FLAG_TRANSLATE \in transform_flag
    /\ InStrip("xmax")
    /\ InStrip("ymax")
    /\ ~InTranslateRect
    /\ highlight_part = PART_SCALE_MAX_X_MAX_Y

\* the position of the handle of a scale part on the unit cage
HandleAt(part) ==
    <<IF part \in {PART_SCALE_MIN_X, PART_SCALE_MIN_X_MIN_Y, PART_SCALE_MIN_X_MAX_Y}
      THEN NHalf
      ELSE IF part \in {PART_SCALE_MAX_X, PART_SCALE_MAX_X_MIN_Y, PART_SCALE_MAX_X_MAX_Y}
      THEN Half ELSE F0,
      IF part \in {PART_SCALE_MIN_Y, PART_SCALE_MIN_X_MIN_Y, PART_SCALE_MAX_X_MIN_Y}
      THEN NHalf
      ELSE IF part \in {PART_SCALE_MAX_Y, PART_SCALE_MIN_X_MAX_Y, PART_SCALE_MAX_X_MAX_Y}
      THEN Half ELSE F0>>

\* the point of the unit cage diametrically opposite the handle
OppositeOf(part) == <<neg_f(HandleAt(part)[1]), neg_f(HandleAt(part)[2])>>

\* the axes a drag of the part leaves alone: none for a corner, for an edge
\* the axis the edge runs along
ConstrainedOf(part) ==
    <<part \in {PART_SCALE_MIN_Y, PART_SCALE_MAX_Y},
      part \in {PART_SCALE_MIN_X, PART_SCALE_MAX_X}>>

\* a successful update on a scale part was the last operation
ScaleUpdated == Updated /\ last.branch = "scale"

\* C6: for each of the 8 scale parts the pivot table gives the point of the
\* unit cage opposite the handle, coordinates in {-0.5, 0, 0.5}, no axis
\* constrained for a corner and exactly the axis along the edge for an edge;
\* for a part that is no scale part the assertion is reached.  A scale update
\* with Translate enabled uses that pivot and those constraints.
C6_PivotTable ==
    /\ \A part \in ScaleParts :
           LET r == manipulator_rect_pivot_from_scale_part(part, <<NaN, NaN>>)
           IN  /\ ~r.assert
               /\ r.pt = OppositeOf(part)
               /\ r.pt[1] \in {NHalf, F0, Half}
               /\ r.pt[2] \in {NHalf, F0, Half}
               /\ r.constrain_axis = ConstrainedOf(part)
               /\ part \in CornerParts => r.constrain_axis = <<FALSE, FALSE>>
               /\ part \in EdgeParts =>
                      Cardinality({i \in 1..2 : r.constrain_axis[i]}) = 1
    /\ \A part \in {PART_NONE, PART_TRANSLATE, PART_ROTATE} :
           manipulator_rect_pivot_from_scale_part(part, <<NaN, NaN>>).assert
    /\ (ScaleUpdated /\ XFORM_FLAG_TRANSLATE \in transform_flag) =>
           /\ last.pivot = OppositeOf(highlight_part)
           /\ last.constrain_axis = ConstrainedOf(highlight_part)

\* a drag of the left edge handle with Translate enabled: pivot on the right
\* edge, y constrained
C6_Witness ==
    /\ ScaleUpdated
    /\ XFORM_FLAG_TRANSLATE \in transform_flag
    /\ highlight_part = PART_SCALE_MIN_X
    /\ last.pivot = <<Half, F0>>
    /\ last.constrain_axis = <<FALSE, TRUE>>

\* |x - 1|
Deviation(x) == fabsf(sub_f(x, F1))

FiniteRow(v) == \A k \in 1..4 : IsFinite(v[k])

\* C7: in a scale update with ScaleUniform enabled both factors applied to
\* the matrix are equal, and their value is the per-axis factor whose
\* deviation from 1 is not smaller than the other's.
C7_UniformScale ==
    (ScaleUpdated /\ XFORM_FLAG_SCALE_UNIFORM \in transform_flag) =>
        LET a == last.scale_axis
            sc == last.scale
        IN  /\ sc[1] = sc[2]
            /\ sc[1] \in {a[1], a[2]}
            /\ ~lt_f(Deviation(sc[1]), Deviation(a[1]))
            /\ ~lt_f(Deviation(sc[1]), Deviation(a[2]))
            /\ \A i \in 1..2 :
                   (IsFinite(sc[i]) /\ FiniteRow(begin_matrix[i])) =>
                       \A k \in 1..4 :
                           matrix_offset[i][k] = mul_f(sc[i], begin_matrix[i][k])

\* an asymmetric drag: the two per-axis factors differ, the one farther from
\* 1 is applied to both axes
C7_Witness ==
    /\ ScaleUpdated
    /\ XFORM_FLAG_SCALE_UNIFORM \in transform_flag
    /\ last.scale_axis[1] # last.scale_axis[2]
    /\ gt_f(Deviation(last.scale_axis[2]), Deviation(last.scale_axis[1]))
    /\ last.scale = <<last.scale_axis[2], last.scale_axis[2]>>
    /\ matrix_offset[1][1] = mul_f(last.scale_axis[2], begin_matrix[1][1])
    /\ matrix_offset # begin_matrix

\* the parts the transform flags enable
EnabledParts ==
    (IF ScaleEnabled THEN ScaleParts ELSE {})
    \cup (IF XFORM_FLAG_TRANSLATE \in transform_flag THEN {PART_TRANSLATE} ELSE {})
    \cup (IF XFORM_FLAG_ROTATE \in transform_flag THEN {PART_ROTATE} ELSE {})

\* C8 as stated: after draw_select every enabled part has been drawn under
\* the id baseSelectionId | partCode of that part, and no two drawn parts
\* share an id.
C8_PickingIds ==
    last.op = "draw_select" =>
        /\ \A part \in EnabledParts :
               \E i \in 1..Len(select_buf) :
                   /\ select_buf[i].part = part
                   /\ select_buf[i].id = BitOr(last.select_id, part)
        /\ \A i, j \in 1..Len(select_buf) :
               (i # j /\ select_buf[i].part \in Parts /\ select_buf[j].part \in Parts)
               => select_buf[i].id # select_buf[j].id

\* C9: whenever no drag session is active and the "matrix" property is
\* bound, the widget's offset matrix equals the value of the property.
C9_MirrorInvariant ==
    (state = "Idle" /\ prop_bound) => matrix_offset = prop_value

\* a committed drag that moved the matrix
C9_Witness ==
    /\ last.op = "exit_commit"
    /\ prop_bound
    /\ first_update.set
    /\ matrix_offset # begin_matrix
    /\ matrix_offset = prop_value

\* press and current pointer offsets from the pivot on one axis, divided by
\* the cage dimension of the axis
DeltaOrig(i) == div_f(sub_f(interaction_data.orig_mouse[i], last.pivot[i]), dims[i])
DeltaCurr(i) == div_f(sub_f(UpdatePoint[i], last.pivot[i]), dims[i])

\* s of the axis: -1 when the press offset is negative
SideOf(i) == IF lt_f(DeltaOrig(i), F0) THEN <<-1, 1>> ELSE F1

\* the factor of one axis by the formula of the specification
FactorOf(i) ==
    IF last.constrain_axis[i] THEN F1
    ELSE add_f(F1, div_f(mul_f(SideOf(i), sub_f(DeltaCurr(i), DeltaOrig(i))),
                         len_v3(begin_matrix[i])))

\* the axis is free and its factor is an ordinary number
FreeAxis(i) ==
    /\ ~last.constrain_axis[i]
    /\ IsFinite(last.scale_axis[i])
    /\ gt_f(len_v3(begin_matrix[i]), F0)

Farther(i) == gt_f(fabsf(DeltaCurr(i)), fabsf(DeltaOrig(i)))
Nearer(i) == lt_f(fabsf(DeltaCurr(i)), fabsf(DeltaOrig(i)))

\* the current pointer is on the side of the pivot where the press was
PressSide(i) == gt_f(mul_f(SideOf(i), DeltaCurr(i)), F0)

\* C10 as stated: the per-axis factor is 1 on a constrained axis and
\* 1 + s*(deltaCurr - deltaOrig)/len on a free one, and on a free axis a
\* pointer farther from the pivot than the press gives a factor above 1, a
\* nearer one a factor below 1.
C10_ScaleFactor_Stated ==
    ScaleUpdated =>
        \A i \in 1..2 :
            /\ last.scale_axis[i] = FactorOf(i)
            /\ (FreeAxis(i) /\ Farther(i)) => gt_f(last.scale_axis[i], F1)
            /\ (FreeAxis(i) /\ Nearer(i)) => lt_f(last.scale_axis[i], F1)

\* C10: the per-axis factor is 1 on a constrained axis and
\* 1 + s*(deltaCurr - deltaOrig)/len on a free one; on a free axis a pointer
\* nearer to the pivot than the press gives a factor below 1, a pointer
\* farther from the pivot gives a factor above 1 when it is on the side of
\* the pivot where the press was, and a factor below 1 otherwise.
C10_ScaleFactor ==
    ScaleUpdated =>
        \A i \in 1..2 :
            /\ last.scale_axis[i] = FactorOf(i)
            /\ (FreeAxis(i) /\ Nearer(i)) => lt_f(last.scale_axis[i], F1)
            /\ (FreeAxis(i) /\ Farther(i) /\ PressSide(i)) =>
                   gt_f(last.scale_axis[i], F1)
            /\ (FreeAxis(i) /\ Farther(i) /\ ~PressSide(i)) =>
                   lt_f(last.scale_axis[i], F1)

\* a drag that moved outward on the x axis (factor above 1) and across the
\* pivot to a point farther from it on the y axis (factor below 1)
C10_Witness ==
    /\ ScaleUpdated
    /\ FreeAxis(1)
    /\ FreeAxis(2)
    /\ Farther(1)
    /\ PressSide(1)
    /\ gt_f(last.scale_axis[1], F1)
    /\ Farther(2)
    /\ ~PressSide(2)
    /\ lt_f(last.scale_axis[2], F1)
    /\ last.scale_axis[2] = FactorOf(2)

\* the step is an update whose pointer could not be projected
FailedUpdateStep == last'.op = "modal" /\ ~last'.ok

\* C11: an update whose projection fails leaves the offset matrix and the
\* bound property as they were before it, keeps the session's origin pointer
\* and snapshot, and returns the running status, so the session goes on.
C11_FailedProjectionNoOp ==
    [][FailedUpdateStep =>
          /\ matrix_offset' = matrix_offset
          /\ prop_value' = prop_value
          /\ interaction_data' = interaction_data
          /\ last'.ret = OPERATOR_RUNNING_MODAL
          /\ state' = "Dragging"]_vars

\* a failed projection in a drag that had already moved the matrix away from
\* the snapshot swapped in for the projection
C11_Witness ==
    /\ last.op = "modal"
    /\ ~last.ok
    /\ last.ret = OPERATOR_RUNNING_MODAL
    /\ state = "Dragging"
    /\ first_update.set
    /\ matrix_offset # interaction_data.orig_matrix_offset
    /\ prop_bound
    /\ prop_value = matrix_offset

\* the factor of a free axis for a pivot at the local origin
OriginFactor(i) ==
    LET d_orig == div_f(interaction_data.orig_mouse[i], dims[i])
        d_curr == div_f(UpdatePoint[i], dims[i])
        side == IF lt_f(d_orig, F0) THEN <<-1, 1>> ELSE F1
    IN  add_f(F1, div_f(mul_f(side, sub_f(d_curr, d_orig)), len_v3(begin_matrix[i])))

\* C12: in a scale update without Translate the pivot is the local origin
\* and no axis is constrained, for the edge parts as well, so both axes get
\* a computed factor; with Translate the pivot and the constraints are those
\* of the pivot table for the active part.
C12_ScalePivot ==
    ScaleUpdated =>
        IF XFORM_FLAG_TRANSLATE \in transform_flag
        THEN LET r == manipulator_rect_pivot_from_scale_part(highlight_part, <<NaN, NaN>>)
             IN  /\ ~r.assert
                 /\ last.pivot = r.pt
                 /\ last.constrain_axis = r.constrain_axis
        ELSE /\ last.pivot = zero_v2
             /\ last.constrain_axis = <<FALSE, FALSE>>
             /\ \A i \in 1..2 : last.scale_axis[i] = OriginFactor(i)

\* a drag of an edge handle without Translate: pivot at the origin and a
\* factor other than 1 on both axes, the one along the edge included
C12_Witness ==
    /\ ScaleUpdated
    /\ XFORM_FLAG_TRANSLATE \notin transform_flag
    /\ highlight_part = PART_SCALE_MIN_X
    /\ last.pivot = zero_v2
    /\ last.constrain_axis = <<FALSE, FALSE>>
    /\ last.scale_axis[1] # F1
    /\ last.scale_axis[2] # F1
    /\ last.scale_axis[2] = OriginFactor(2)

====
